---- MODULE Spec2Model ----
(***************************************************************************)
(* Model of the order-book mirror of kraken-rust: src/order_book.rs (the   *)
(* OrderBook store, its snapshot initializer, its diff applier and its     *)
(* checksum) and src/main.rs (the message loop that routes decoded         *)
(* messages to them).                                                      *)
(*                                                                         *)
(* Representation choices:                                                 *)
(*  - a wire string (serde_json string) is a sequence of one-character     *)
(*    strings, so parsing and formatting are computed, not assumed;        *)
(*  - a serde_json Value is a record [t, v] tagged "arr", "obj", "str",    *)
(*    "num"; None stands for Option::None;                                 *)
(*  - an f64 is NaN or a non-negative decimal with F64FracDigits           *)
(*    fractional digits, [k |-> "fin", i |-> integer part, f |-> fraction  *)
(*    in units of 10^-F64FracDigits].  On decimal strings with at most     *)
(*    that many fractional digits (the wire format has 5 for prices and 8  *)
(*    for volumes) parsing, ==, partial_cmp and {:.N} formatting of the    *)
(*    nearest f64 agree with this decimal.  Signs, exponents and           *)
(*    infinities are outside the modelled alphabet.                        *)
(***************************************************************************)
EXTENDS Integers, Sequences, FiniteSets, TLC

VARIABLES
    depth,   \* OrderBook.depth
    asks,    \* OrderBook.asks : sequence of Level
    bids,    \* OrderBook.bids : sequence of Level
    status,  \* "ok" | "panicked" | "failed" (main returned Err) | "ended"
    last,    \* the last call: [op, arg, pre, ret]
    calls    \* the calls made so far by a test scenario (names)

vars == <<depth, asks, bids, status, last, calls>>

Min(a, b) == IF a <= b THEN a ELSE b

(***************************************************************************)
(* serde_json::Value                                                       *)
(***************************************************************************)
None == [t |-> "none", v |-> <<>>]
Str(s) == [t |-> "str", v |-> s]
Num == [t |-> "num", v |-> <<>>]
Arr(s) == [t |-> "arr", v |-> s]
Obj(f) == [t |-> "obj", v |-> f]

\* Value::get(usize): an element of an array, None for anything else.
\* The index is 0-based as in the source.
get_index(val, i) ==
    IF val.t = "arr" /\ i + 1 <= Len(val.v) THEN val.v[i + 1] ELSE None

\* Value::get(&str): a member of an object, None for anything else.
get_key(val, k) ==
    IF val.t = "obj" /\ k \in DOMAIN val.v THEN val.v[k] ELSE None

(***************************************************************************)
(* f64                                                                     *)
(***************************************************************************)
F64FracDigits == 8

NaN == [k |-> "nan", i |-> 0, f |-> 0]
Fin(i, f) == [k |-> "fin", i |-> i, f |-> f]
Zero == Fin(0, 0)
ParseErr == [k |-> "err", i |-> 0, f |-> 0]

DigitVal ==
    ("0" :> 0) @@ ("1" :> 1) @@ ("2" :> 2) @@ ("3" :> 3) @@ ("4" :> 4) @@
    ("5" :> 5) @@ ("6" :> 6) @@ ("7" :> 7) @@ ("8" :> 8) @@ ("9" :> 9)
DigitChar == <<"0", "1", "2", "3", "4", "5", "6", "7", "8", "9">>
IsDigit(c) == c \in DOMAIN DigitVal

RECURSIVE DigitsToNat(_, _)
DigitsToNat(s, acc) ==
    IF s = <<>> THEN acc
    ELSE DigitsToNat(Tail(s), acc * 10 + DigitVal[Head(s)])

\* The fraction digits as units of 10^-F64FracDigits (digits past the
\* resolution are not represented).
FracToNat(s) ==
    LET n == Min(Len(s), F64FracDigits)
    IN  DigitsToNat(SubSeq(s, 1, n), 0) * 10 ^ (F64FracDigits - n)

\* str::parse::<f64>(): Ok(value) or Err (ParseErr).
parse_f64(s) ==
    LET dots == {i \in 1..Len(s) : s[i] = "."}
    IN  IF s = <<"N", "a", "N">> THEN NaN
        ELSE IF Cardinality(dots) > 1
                \/ \E i \in 1..Len(s) : s[i] # "." /\ ~IsDigit(s[i])
        THEN ParseErr
        ELSE LET d == IF dots = {} THEN Len(s) + 1 ELSE CHOOSE i \in dots : TRUE
                 ip == SubSeq(s, 1, d - 1)
                 fp == SubSeq(s, d + 1, Len(s))
             IN  IF Len(ip) + Len(fp) = 0 THEN ParseErr
                 ELSE Fin(DigitsToNat(ip, 0), FracToNat(fp))

\* f64 == : NaN equals nothing, itself included.
F64Eq(a, b) == a.k = "fin" /\ b.k = "fin" /\ a.i = b.i /\ a.f = b.f

\* a.partial_cmp(&b) == Some(Less)
F64Less(a, b) == a.i < b.i \/ (a.i = b.i /\ a.f < b.f)

(***************************************************************************)
(* Level and the sorts                                                     *)
(***************************************************************************)
Level(p, v) == [price |-> p, volume |-> v]

\* Variant: the asks' comparator used for both sides.
BeforeAscending(x, y, desc) == F64Less(x.price, y.price)

\* The comparator of sort_by says Less for (x, y): ascending by price for
\* asks, descending for bids.
Before(x, y, desc) ==
    IF desc THEN F64Less(y.price, x.price) ELSE F64Less(x.price, y.price)

\* slice::sort_by is stable: an element goes after the elements it does not
\* precede.
RECURSIVE InsertStable(_, _, _)
InsertStable(s, e, desc) ==
    IF s = <<>> THEN <<e>>
    ELSE IF Before(e, Head(s), desc) THEN <<e>> \o s
    ELSE <<Head(s)>> \o InsertStable(Tail(s), e, desc)

RECURSIVE SortFrom(_, _, _)
SortFrom(acc, s, desc) ==
    IF s = <<>> THEN acc
    ELSE SortFrom(InsertStable(acc, Head(s), desc), Tail(s), desc)

\* Variant: the sort left out.
SortNone(s, desc) == s

sort_by(s, desc) == SortFrom(<<>>, s, desc)

\* partial_cmp(..).unwrap() panics on a NaN price; a sort of two or more
\* elements compares every element at least once.
SortPanics(s) == Len(s) >= 2 /\ \E i \in 1..Len(s) : s[i].price.k = "nan"

Take(s, n) == SubSeq(s, 1, Min(n, Len(s)))

(***************************************************************************)
(* OrderBook::initialize                                                   *)
(***************************************************************************)
\* Variant: a string that fails to parse counts as 0.0, as in update.
ParseLevelOrZero(entry) ==
    LET p == get_index(entry, 0)
        v == get_index(entry, 1)
        num(s) == IF parse_f64(s).k = "err" THEN Zero ELSE parse_f64(s)
    IN  IF p.t # "str" \/ v.t # "str" THEN <<>>
        ELSE <<Level(num(p.v), num(v.v))>>

\* The filter_map closure: <<level>> for Some(level), <<>> for None.
ParseLevel(entry) ==
    LET p == get_index(entry, 0)
        v == get_index(entry, 1)
    IN  IF p.t # "str" THEN <<>>
        ELSE IF parse_f64(p.v).k = "err" THEN <<>>
        ELSE IF v.t # "str" THEN <<>>
        ELSE IF parse_f64(v.v).k = "err" THEN <<>>
        ELSE <<Level(parse_f64(p.v), parse_f64(v.v))>>

RECURSIVE FilterMapLevels(_)
FilterMapLevels(es) ==
    IF es = <<>> THEN <<>>
    ELSE ParseLevel(Head(es)) \o FilterMapLevels(Tail(es))

\* Variant: the unparsable entries are dropped before the first depth
\* entries are taken.
SnapshotSideFilterFirst(d, list) == Take(FilterMapLevels(list), d)

\* The entries of one side that initialize keeps, before the sort.
SnapshotSide(d, list) == FilterMapLevels(Take(list, d))

\* Variant: the snapshot's levels are added to the levels a side holds.
InitializeExtending(d, a, b, snapshot) ==
    LET as == get_key(snapshot, "as")
        bs == get_key(snapshot, "bs")
        a1 == IF as.t = "arr" THEN a \o SnapshotSide(d, as.v) ELSE a
        b1 == IF bs.t = "arr" THEN b \o SnapshotSide(d, bs.v) ELSE b
    IN  IF SortPanics(b1) \/ SortPanics(a1)
        THEN [asks |-> a, bids |-> b, panic |-> TRUE]
        ELSE [asks |-> sort_by(a1, FALSE), bids |-> sort_by(b1, TRUE),
              panic |-> FALSE]

\* The book after initialize(snapshot): [asks, bids, panic].
initialize(d, a, b, snapshot) ==
    LET as == get_key(snapshot, "as")
        bs == get_key(snapshot, "bs")
        a1 == IF as.t = "arr" THEN SnapshotSide(d, as.v) ELSE a
        b1 == IF bs.t = "arr" THEN SnapshotSide(d, bs.v) ELSE b
    IN  IF SortPanics(b1) \/ SortPanics(a1)
        THEN [asks |-> a, bids |-> b, panic |-> TRUE]
        ELSE [asks |-> sort_by(a1, FALSE), bids |-> sort_by(b1, TRUE),
              panic |-> FALSE]

(***************************************************************************)
(* OrderBook::update and truncate_to_depth                                 *)
(***************************************************************************)
\* Variant: a string that fails to parse yields NaN.
ParseOrNaN(s) == IF parse_f64(s).k = "err" THEN NaN ELSE parse_f64(s)

\* parse().unwrap_or(0.0)
ParseOrZero(s) == IF parse_f64(s).k = "err" THEN Zero ELSE parse_f64(s)

\* Variant: the retain predicate inverted.
RetainOnly(side, price) == SelectSeq(side, LAMBDA l : F64Eq(l.price, price))

\* Vec::retain(|l| l.price != price)
Retain(side, price) == SelectSeq(side, LAMBDA l : ~F64Eq(l.price, price))

\* Variant: the search that never finds the level.
FindPriceNever(side, price) == 0

\* iter_mut().find(|l| l.price == price): the first index, 0 for None.
FindPrice(side, price) ==
    IF \E i \in 1..Len(side) : F64Eq(side[i].price, price)
    THEN CHOOSE i \in 1..Len(side) :
            /\ F64Eq(side[i].price, price)
            /\ \A j \in 1..(i - 1) : ~F64Eq(side[j].price, price)
    ELSE 0

\* One parsed diff entry applied to one side: [side, panic].
ApplyLevel(side, price, volume, desc) ==
    IF F64Eq(volume, Zero)
    THEN [side |-> Retain(side, price), panic |-> FALSE]
    ELSE LET i == FindPrice(side, price)
         IN  IF i # 0
             THEN [side |-> [side EXCEPT ![i].volume = volume], panic |-> FALSE]
             ELSE LET pushed == Append(side, Level(price, volume))
                  IN  IF SortPanics(pushed)
                      THEN [side |-> side, panic |-> TRUE]
                      ELSE [side |-> sort_by(pushed, desc), panic |-> FALSE]

\* One diff entry: the tuple (ask[0].as_str()?, ask[1].as_str()?,
\* ask[2].as_str()?) is built left to right on the Vec, whose index panics
\* when out of bounds; an entry that is no array, or has a non-string among
\* the three, is skipped.
ApplyEntry(side, entry, desc) ==
    LET e == entry.v
        skip == [side |-> side, panic |-> FALSE]
        boom == [side |-> side, panic |-> TRUE]
    IN  IF entry.t # "arr" THEN skip
        ELSE IF Len(e) < 1 THEN boom
        ELSE IF e[1].t # "str" THEN skip
        ELSE IF Len(e) < 2 THEN boom
        ELSE IF e[2].t # "str" THEN skip
        ELSE IF Len(e) < 3 THEN boom
        ELSE IF e[3].t # "str" THEN skip
        ELSE ApplyLevel(side, ParseOrZero(e[1].v), ParseOrZero(e[2].v), desc)

\* Variant: the side is cut to depth after every entry.
RECURSIVE ApplyEntriesEvicting(_, _, _)
ApplyEntriesEvicting(side, entries, desc) ==
    IF entries = <<>> THEN [side |-> side, panic |-> FALSE]
    ELSE LET r == ApplyEntry(side, Head(entries), desc)
             cut == IF Len(r.side) > depth THEN SubSeq(r.side, 1, depth) ELSE r.side
         IN  IF r.panic THEN r ELSE ApplyEntriesEvicting(cut, Tail(entries), desc)

\* The for loop over one side's diff entries, in order.
RECURSIVE ApplyEntries(_, _, _)
ApplyEntries(side, entries, desc) ==
    IF entries = <<>> THEN [side |-> side, panic |-> FALSE]
    ELSE LET r == ApplyEntry(side, Head(entries), desc)
         IN  IF r.panic THEN r ELSE ApplyEntries(r.side, Tail(entries), desc)

\* Variant: the truncation left out.
TruncateNever(side, d) == side

\* Vec::truncate(depth) when longer than depth.
Truncate(side, d) == IF Len(side) > d THEN SubSeq(side, 1, d) ELSE side

\* Variant: the bids' comparator used for the asks as well.
TruncateToDepthDescending(d, a, b) ==
    LET a1 == Truncate(a, d)
        b1 == Truncate(b, d)
    IN  IF SortPanics(a1) \/ SortPanics(b1)
        THEN [asks |-> a, bids |-> b, panic |-> TRUE]
        ELSE [asks |-> sort_by(a1, TRUE), bids |-> sort_by(b1, TRUE),
              panic |-> FALSE]

\* truncate_to_depth: [asks, bids, panic].
truncate_to_depth(d, a, b) ==
    LET a1 == Truncate(a, d)
        b1 == Truncate(b, d)
    IN  IF SortPanics(a1) \/ SortPanics(b1)
        THEN [asks |-> a, bids |-> b, panic |-> TRUE]
        ELSE [asks |-> sort_by(a1, FALSE), bids |-> sort_by(b1, TRUE),
              panic |-> FALSE]

\* The book after update(message): [asks, bids, panic].
update(d, a, b, message) ==
    LET update_data == get_index(message, 1)
        au == get_key(update_data, "a")
        bu == get_key(update_data, "b")
        ra == IF update_data # None /\ au.t = "arr"
              THEN ApplyEntries(a, au.v, FALSE)
              ELSE [side |-> a, panic |-> FALSE]
        rb == IF update_data # None /\ bu.t = "arr" /\ ~ra.panic
              THEN ApplyEntries(b, bu.v, TRUE)
              ELSE [side |-> b, panic |-> FALSE]
    IN  IF ra.panic \/ rb.panic
        THEN [asks |-> a, bids |-> b, panic |-> TRUE]
        ELSE truncate_to_depth(d, ra.side, rb.side)

(***************************************************************************)
(* OrderBook::calculate_checksum                                           *)
(***************************************************************************)
PricePrecision == 5
VolumePrecision == 8
ChecksumLevels == 10

RECURSIVE NatToDigits(_)
NatToDigits(n) ==
    IF n < 10 THEN <<DigitChar[n + 1]>>
    ELSE NatToDigits(n \div 10) \o <<DigitChar[(n % 10) + 1]>>

RECURSIVE PadDigits(_, _)
PadDigits(n, width) ==
    IF width = 0 THEN <<>>
    ELSE PadDigits(n \div 10, width - 1) \o <<DigitChar[(n % 10) + 1]>>

\* format!("{:.prec}", x): the decimal rounded to prec fractional digits
\* (a tie, which no value with at most prec fractional digits produces, goes
\* to the even digit).
FormatFixed(x, prec) ==
    IF x.k = "nan" THEN <<"N", "a", "N">>
    ELSE LET q == 10 ^ (F64FracDigits - prec)
             whole == x.f \div q
             rem == x.f % q
             up == 2 * rem > q \/ (2 * rem = q /\ whole % 2 = 1)
             fr == IF up THEN whole + 1 ELSE whole
             carry == fr = 10 ^ prec
         IN  NatToDigits(IF carry THEN x.i + 1 ELSE x.i) \o <<".">>
                \o PadDigits(IF carry THEN 0 ELSE fr, prec)

\* str::replace(".", "")
RemoveDots(s) == SelectSeq(s, LAMBDA c : c # ".")

\* str::trim_start_matches('0')
RECURSIVE TrimStartZeros(_)
TrimStartZeros(s) ==
    IF s # <<>> /\ Head(s) = "0" THEN TrimStartZeros(Tail(s)) ELSE s

\* One formatted segment of the checksum input.
Segment(x, prec) == TrimStartZeros(RemoveDots(FormatFixed(x, prec)))

LevelString(l) == Segment(l.price, PricePrecision) \o Segment(l.volume, VolumePrecision)

RECURSIVE SideString(_)
SideString(side) ==
    IF side = <<>> THEN <<>>
    ELSE LevelString(Head(side)) \o SideString(Tail(side))

\* Variant: every level of both sides enters the input string.
ChecksumInputAll(a, b) == SideString(a) \o SideString(b)

\* input_string: the asks' first ten levels, then the bids' first ten.
ChecksumInput(a, b) ==
    SideString(Take(a, ChecksumLevels)) \o SideString(Take(b, ChecksumLevels))

\* as_bytes() of the characters the input string can hold.
CharCode ==
    ("0" :> 48) @@ ("1" :> 49) @@ ("2" :> 50) @@ ("3" :> 51) @@ ("4" :> 52) @@
    ("5" :> 53) @@ ("6" :> 54) @@ ("7" :> 55) @@ ("8" :> 56) @@ ("9" :> 57) @@
    ("N" :> 78) @@ ("a" :> 97)

\* A u32 is the pair <<high 16 bits, low 16 bits>>.
U32(n) == <<n \div 65536, n % 65536>>

RECURSIVE Xor(_, _)
Xor(a, b) ==
    IF a = 0 THEN b
    ELSE IF b = 0 THEN a
    ELSE 2 * Xor(a \div 2, b \div 2) + ((a + b) % 2)

Xor32(x, y) == <<Xor(x[1], y[1]), Xor(x[2], y[2])>>
Shr32(x, n) == <<x[1] \div (2 ^ n), (x[1] % (2 ^ n)) * (2 ^ (16 - n)) + x[2] \div (2 ^ n)>>

\* CRC-32 (IEEE 802.3, reflected polynomial EDB88320), as crc32fast computes.
CrcPoly == <<60856, 33568>>

RECURSIVE CrcRounds(_, _)
CrcRounds(c, k) ==
    IF k = 0 THEN c
    ELSE CrcRounds(IF c[2] % 2 = 1 THEN Xor32(CrcPoly, Shr32(c, 1)) ELSE Shr32(c, 1),
                   k - 1)

CrcTable == [n \in 0..255 |-> CrcRounds(<<0, n>>, 8)]

\* One byte folded into the running value.
CrcByte(c, ch) == Xor32(CrcTable[Xor(c[2] % 256, CharCode[ch])], Shr32(c, 8))

\* Hasher::update over s[lo..hi], the bytes in order.  The input is halved
\* and the value after the first half is bound before the second half is
\* folded in, so that the evaluation stays shallow on long inputs.
RECURSIVE CrcUpdate(_, _, _, _)
CrcUpdate(c, s, lo, hi) ==
    IF lo > hi THEN c
    ELSE IF lo = hi THEN CrcByte(c, s[lo])
    ELSE LET mid == (lo + hi) \div 2
         IN  CHOOSE r \in {CrcUpdate(left, s, mid + 1, hi) :
                            left \in {CrcUpdate(c, s, lo, mid)}} : TRUE

Crc32(s) == Xor32(CrcUpdate(<<65535, 65535>>, s, 1, Len(s)), <<65535, 65535>>)

\* calculate_checksum(&self) -> u32
calculate_checksum(a, b) == Crc32(ChecksumInput(a, b))

(***************************************************************************)
(* Inputs: wire strings, diff entries, snapshot entries, messages          *)
(***************************************************************************)
MaxDepth == 2     \* depths 0..MaxDepth of OrderBook::new
MaxEntries == 2   \* diff entries of one update message, both sides together
MaxSnap == 2      \* entries of one snapshot, both sides together

W1 == <<"1">>
W2 == <<"2", ".", "0">>
WBad == <<"x">>
WNaN == <<"N", "a", "N">>
V0 == <<"0", ".", "0">>
V5 == <<"5">>
V7 == <<"7", ".", "5">>
TS == Str(<<"9">>)
Republish == Str(<<"r">>)
ChannelName == Str(<<"b", "o", "o", "k">>)
Pair == Str(<<"X", "B", "T">>)

Entry(p, v) == Arr(<<Str(p), Str(v), TS>>)

\* Diff entries: [price, volume, timestamp] triples, an entry with the
\* republish flag, and malformed ones: an unparsable price, an unparsable
\* volume, a NaN price, an entry of two elements.
GoodDiffEntries == {Entry(p, v) : p \in {W1, W2}, v \in {V0, V7}}
OddDiffEntries ==
    { Entry(WBad, V7), Entry(W1, WBad), Entry(WNaN, V7),
      Arr(<<Str(W2), Str(V7), TS, Republish>>),
      Arr(<<Str(W1), Str(V7)>>) }
DiffEntries == GoodDiffEntries \cup OddDiffEntries

\* Snapshot entries, with the same kinds of malformed ones.
SnapEntries ==
    { Entry(W1, V5), Entry(W2, V5),
      Entry(WBad, V5), Entry(W1, WBad), Entry(WNaN, V5),
      Arr(<<Str(W1)>>) }

\* The sequences over S of length n, and of length at most n.
RECURSIVE SeqsOfLen(_, _)
SeqsOfLen(S, n) ==
    IF n = 0 THEN {<<>>}
    ELSE {Append(q, x) : q \in SeqsOfLen(S, n - 1), x \in S}
SeqsUpTo(S, n) == UNION {SeqsOfLen(S, k) : k \in 0..n}

\* Pairs of lists with at most n elements together.
ListPairs(S, n) ==
    UNION {{<<la, lb>> : lb \in SeqsUpTo(S, n - Len(la))} : la \in SeqsUpTo(S, n)}

\* Update payloads: "a" and/or "b" present.
UpdatePayloads ==
    {Obj(("a" :> Arr(l[1])) @@ ("b" :> Arr(l[2]))) : l \in ListPairs(DiffEntries, MaxEntries)}
    \cup {Obj("a" :> Arr(la)) : la \in SeqsUpTo(DiffEntries, MaxEntries)}
    \cup {Obj("b" :> Arr(lb)) : lb \in SeqsUpTo(DiffEntries, MaxEntries)}

\* Snapshot payloads: "as" and/or "bs" present, and one whose "as" is no
\* array.
SnapshotPayloads ==
    {Obj(("as" :> Arr(l[1])) @@ ("bs" :> Arr(l[2]))) : l \in ListPairs(SnapEntries, MaxSnap)}
    \cup {Obj("as" :> Arr(la)) : la \in SeqsUpTo(SnapEntries, MaxSnap)}
    \cup {Obj("bs" :> Arr(lb)) : lb \in SeqsUpTo(SnapEntries, MaxSnap)}
    \cup {Obj(("as" :> Num) @@ ("bs" :> Arr(<<Entry(W1, V5)>>)))}

\* The whole message [channel_id, payload, channel_name, pair].
BookMsg(payload) == Arr(<<Num, payload, ChannelName, Pair>>)

(***************************************************************************)
(* The OrderBook API: new, initialize, update, calculate_checksum          *)
(***************************************************************************)
Store == [asks |-> asks, bids |-> bids]
NoRet == <<>>
Call(op, arg, ret) == [op |-> op, arg |-> arg, pre |-> Store, ret |-> ret]
Idle == [op |-> "idle", arg |-> None, pre |-> [asks |-> <<>>, bids |-> <<>>],
         ret |-> NoRet]

\* OrderBook::new(depth)
Init ==
    /\ depth \in 0..MaxDepth
    /\ asks = <<>>
    /\ bids = <<>>
    /\ status = "ok"
    /\ last = Idle
    /\ calls = <<>>

\* A call that returned r = [asks, bids, panic], or panicked.
Returned(op, arg, r) ==
    /\ asks' = r.asks
    /\ bids' = r.bids
    /\ status' = IF r.panic THEN "panicked" ELSE "ok"
    /\ last' = Call(op, arg, NoRet)
    /\ UNCHANGED <<depth, calls>>

\* The next call is made once the caller has taken note of the last one.
Ready == status = "ok" /\ last.op = "idle"

Initialize(snapshot) ==
    /\ Ready
    /\ Returned("initialize", snapshot, initialize(depth, asks, bids, snapshot))

Update(message) ==
    /\ Ready
    /\ Returned("update", message, update(depth, asks, bids, message))

CalculateChecksum ==
    /\ Ready
    /\ last' = Call("calculate_checksum", None, calculate_checksum(asks, bids))
    /\ UNCHANGED <<depth, asks, bids, status, calls>>

\* The caller takes note of the call that returned; the record of it is
\* dropped, the book stays.
Observe ==
    /\ status = "ok"
    /\ last.op # "idle"
    /\ last' = Idle
    /\ UNCHANGED <<depth, asks, bids, status, calls>>

Next ==
    \/ \E p \in SnapshotPayloads : Initialize(p)
    \/ \E p \in UpdatePayloads : Update(BookMsg(p))
    \/ CalculateChecksum
    \/ Observe

Spec == Init /\ [][Next]_vars

(***************************************************************************)
(* main.rs: the message loop                                               *)
(***************************************************************************)
MainDepth == 10

\* str::parse::<u32>() of a checksum string: <<value>> for Ok, <<>> for Err
\* (an empty string, a character that is no digit, a value past u32::MAX).
RECURSIVE ParseU32From(_, _)
ParseU32From(s, acc) ==
    IF s = <<>> THEN <<acc>>
    ELSE IF ~IsDigit(Head(s)) THEN <<>>
    ELSE LET lo == acc[2] * 10 + DigitVal[Head(s)]
             hi == acc[1] * 10 + lo \div 65536
         IN  IF hi >= 65536 THEN <<>>
             ELSE ParseU32From(Tail(s), <<hi, lo % 65536>>)

parse_u32(s) == IF s = <<>> THEN <<>> ELSE ParseU32From(s, <<0, 0>>)

\* What process_order_book_update prints after the update.
ChecksumReport(payload, a, b) ==
    LET c == get_key(payload, "c")
    IN  IF c.t # "str" THEN "no_c"
        ELSE IF parse_u32(c.v) = <<>> THEN "parse_error"
        ELSE IF calculate_checksum(a, b) = parse_u32(c.v)[1] THEN "match"
        ELSE "mismatch"

\* Checksum strings: the checksum of the empty book, another value, a
\* value past u32::MAX, no number.
C0 == <<"0">>
CMax == <<"4", "2", "9", "4", "9", "6", "7", "2", "9", "5">>
COver == <<"4", "2", "9", "4", "9", "6", "7", "2", "9", "6">>
ChecksumFields == {Str(C0), Str(CMax), Str(COver), Str(WBad), Num}

\* Update payloads of the feed: one diff entry on one side, with or
\* without a "c" member.
MainUpdatePayloads ==
    {Obj(k :> Arr(<<e>>)) : k \in {"a", "b"}, e \in DiffEntries}
    \cup {Obj((k :> Arr(<<e>>)) @@ ("c" :> c)) :
            k \in {"a", "b"}, e \in GoodDiffEntries, c \in ChecksumFields}

\* Payloads with none of "a", "b", and not both "as" and "bs".
UnknownPayloads ==
    { Obj("c" :> Str(C0)), Obj("as" :> Arr(<<Entry(W1, V5)>>)),
      Obj("bs" :> Arr(<<Entry(W1, V5)>>)), Str(W1) }

\* Snapshot payloads of the feed: both "as" and "bs".
MainSnapshotPayloads ==
    {Obj(("as" :> Arr(l[1])) @@ ("bs" :> Arr(l[2]))) : l \in ListPairs(SnapEntries, MaxSnap)}

\* Decoded messages without an element 1: system objects, a short array.
Heartbeats == { Obj("event" :> Str(<<"h", "b">>)), Arr(<<Num>>) }

MainInit ==
    /\ depth = MainDepth
    /\ asks = <<>>
    /\ bids = <<>>
    /\ status = "ok"
    /\ last = Idle
    /\ calls = <<>>

\* Variant: a checksum mismatch resets the book.
ProcessOrderBookUpdateResetting(payload) ==
    /\ status = "ok" /\ last.op = "idle"
    /\ get_key(payload, "b") # None \/ get_key(payload, "a") # None
    /\ LET r == update(depth, asks, bids, payload)
           report == ChecksumReport(payload, r.asks, r.bids)
       IN  /\ asks' = IF ~r.panic /\ report = "mismatch" THEN <<>> ELSE r.asks
           /\ bids' = IF ~r.panic /\ report = "mismatch" THEN <<>> ELSE r.bids
           /\ status' = IF r.panic THEN "panicked" ELSE "ok"
           /\ last' = [op |-> "process_order_book_update",
                       arg |-> Arr(<<Num, payload, ChannelName, Pair>>),
                       pre |-> [asks |-> asks, bids |-> bids],
                       ret |-> IF r.panic THEN <<>> ELSE report]
    /\ UNCHANGED <<depth, calls>>

\* Ok(Message::Text(text)) decoding to [.., payload, ..] with an "a" or "b"
\* member: process_order_book_update(&mut order_book, &update), where update
\* is json_msg.get(1), the payload.
ProcessOrderBookUpdate(payload) ==
    /\ Ready
    /\ get_key(payload, "b") # None \/ get_key(payload, "a") # None
    /\ LET r == update(depth, asks, bids, payload)
       IN  /\ asks' = r.asks
           /\ bids' = r.bids
           /\ status' = IF r.panic THEN "panicked" ELSE "ok"
           /\ last' = Call("process_order_book_update", BookMsg(payload),
                           IF r.panic THEN NoRet
                           ELSE ChecksumReport(payload, r.asks, r.bids))
    /\ UNCHANGED <<depth, calls>>

\* ... with both "bs" and "as" and neither "a" nor "b":
\* order_book.initialize(&update).
MainInitialize(payload) ==
    /\ Ready
    /\ get_key(payload, "b") = None /\ get_key(payload, "a") = None
    /\ get_key(payload, "bs") # None /\ get_key(payload, "as") # None
    /\ LET r == initialize(depth, asks, bids, payload)
       IN  /\ asks' = r.asks
           /\ bids' = r.bids
           /\ status' = IF r.panic THEN "panicked" ELSE "ok"
    /\ last' = Call("initialize", BookMsg(payload), NoRet)
    /\ UNCHANGED <<depth, calls>>

\* Variant: a payload with one of "bs", "as" is taken for a snapshot.
UnknownMessageAsSnapshot(payload) ==
    /\ status = "ok" /\ last.op = "idle"
    /\ get_key(payload, "b") = None /\ get_key(payload, "a") = None
    /\ get_key(payload, "bs") = None \/ get_key(payload, "as") = None
    /\ LET r == initialize(depth, asks, bids, payload)
       IN  /\ asks' = r.asks
           /\ bids' = r.bids
    /\ last' = [op |-> "unknown", arg |-> Arr(<<Num, payload, ChannelName, Pair>>),
                pre |-> [asks |-> asks, bids |-> bids], ret |-> <<>>]
    /\ UNCHANGED <<depth, status, calls>>

\* ... with neither: println!("Unknown message: ...").
UnknownMessage(payload) ==
    /\ Ready
    /\ get_key(payload, "b") = None /\ get_key(payload, "a") = None
    /\ get_key(payload, "bs") = None \/ get_key(payload, "as") = None
    /\ last' = Call("unknown", BookMsg(payload), NoRet)
    /\ UNCHANGED <<depth, asks, bids, status, calls>>

\* A decoded message with no element 1: process_heartbeat(&json_msg).
ProcessHeartbeat(msg) ==
    /\ Ready
    /\ get_index(msg, 1) = None
    /\ last' = Call("process_heartbeat", msg, NoRet)
    /\ UNCHANGED <<depth, asks, bids, status, calls>>

\* A text frame serde_json::from_str rejects: the ? returns the error from
\* main.
UndecodableText ==
    /\ Ready
    /\ status' = "failed"
    /\ last' = Call("decode_error", None, NoRet)
    /\ UNCHANGED <<depth, asks, bids, calls>>

\* Ok(_): a frame that is no text.
OtherFrame ==
    /\ Ready
    /\ last' = Call("other_frame", None, NoRet)
    /\ UNCHANGED <<depth, asks, bids, status, calls>>

\* Err(e) => return Err(e.into())
ReadError ==
    /\ Ready
    /\ status' = "failed"
    /\ last' = Call("read_error", None, NoRet)
    /\ UNCHANGED <<depth, asks, bids, calls>>

\* read.next() is None: the loop ends and main returns Ok(()).
StreamEnd ==
    /\ Ready
    /\ status' = "ended"
    /\ last' = Call("end", None, NoRet)
    /\ UNCHANGED <<depth, asks, bids, calls>>

MainNext ==
    \/ \E p \in MainUpdatePayloads : ProcessOrderBookUpdate(p)
    \/ \E p \in MainSnapshotPayloads : MainInitialize(p)
    \/ \E p \in UnknownPayloads : UnknownMessage(p)
    \/ \E m \in Heartbeats : ProcessHeartbeat(m)
    \/ UndecodableText
    \/ OtherFrame
    \/ ReadError
    \/ StreamEnd
    \/ Observe

SpecMain == MainInit /\ [][MainNext]_vars

(***************************************************************************)
(* The fixtures of mod tests (order_book.rs).  A list gives the price and  *)
(* volume strings of its entries; every timestamp string is TS, which the  *)
(* code only tests for being a string.                                     *)
(***************************************************************************)
\* get_snapshot(), "as"
SnapshotAsks ==
    << <<<<"5", "7", "1", "1", ".", "8", "0", "0", "0", "0">>, <<"8", ".", "1", "3", "4", "3", "9", "4", "0", "1">>>>,
       <<<<"5", "7", "1", "2", ".", "2", "0", "0", "0", "0">>, <<"2", ".", "0", "0", "0", "0", "0", "0", "0", "0">>>>,
       <<<<"5", "7", "1", "2", ".", "8", "0", "0", "0", "0">>, <<"0", ".", "3", "0", "0", "0", "0", "0", "0", "0">>>>,
       <<<<"5", "7", "1", "3", ".", "0", "0", "0", "0", "0">>, <<"3", ".", "2", "9", "8", "0", "0", "0", "0", "0">>>>,
       <<<<"5", "7", "1", "3", ".", "1", "0", "0", "0", "0">>, <<"1", ".", "0", "0", "0", "0", "0", "0", "0", "0">>>>,
       <<<<"5", "7", "1", "3", ".", "9", "0", "0", "0", "0">>, <<"1", ".", "0", "0", "0", "0", "0", "0", "0", "0">>>>,
       <<<<"5", "7", "1", "4", ".", "7", "0", "0", "0", "0">>, <<"0", ".", "5", "0", "0", "0", "0", "0", "0", "0">>>>,
       <<<<"5", "7", "1", "5", ".", "2", "0", "0", "0", "0">>, <<"1", ".", "0", "0", "0", "0", "0", "0", "0", "0">>>>,
       <<<<"5", "7", "1", "6", ".", "6", "0", "0", "0", "0">>, <<"1", ".", "2", "2", "7", "0", "0", "0", "0", "0">>>>,
       <<<<"5", "7", "1", "6", ".", "8", "0", "0", "0", "0">>, <<"0", ".", "3", "5", "0", "0", "0", "0", "0", "0">>>> >>

\* get_snapshot(), "bs"
SnapshotBids ==
    << <<<<"5", "7", "1", "1", ".", "7", "0", "0", "0", "0">>, <<"0", ".", "0", "0", "7", "4", "9", "8", "0", "0">>>>,
       <<<<"5", "7", "0", "9", ".", "2", "0", "0", "0", "0">>, <<"3", ".", "3", "0", "0", "0", "0", "0", "0", "0">>>>,
       <<<<"5", "7", "0", "8", ".", "3", "0", "0", "0", "0">>, <<"0", ".", "7", "5", "4", "8", "3", "9", "0", "7">>>>,
       <<<<"5", "7", "0", "8", ".", "2", "0", "0", "0", "0">>, <<"5", ".", "0", "0", "0", "0", "0", "0", "0", "0">>>>,
       <<<<"5", "7", "0", "7", ".", "8", "0", "0", "0", "0">>, <<"2", ".", "5", "0", "0", "0", "0", "0", "0", "0">>>>,
       <<<<"5", "7", "0", "7", ".", "4", "0", "0", "0", "0">>, <<"4", ".", "3", "3", "0", "0", "0", "0", "0", "0">>>>,
       <<<<"5", "7", "0", "7", ".", "0", "0", "0", "0", "0">>, <<"0", ".", "0", "0", "2", "0", "0", "0", "0", "0">>>>,
       <<<<"5", "7", "0", "6", ".", "9", "0", "0", "0", "0">>, <<"1", ".", "1", "7", "3", "0", "0", "0", "0", "0">>>>,
       <<<<"5", "7", "0", "6", ".", "4", "0", "0", "0", "0">>, <<"0", ".", "8", "5", "6", "0", "0", "0", "0", "0">>>>,
       <<<<"5", "7", "0", "6", ".", "3", "0", "0", "0", "0">>, <<"1", ".", "0", "0", "0", "0", "0", "0", "0", "0">>>> >>

\* get_expected_order_book1(), "bs" (its "as" are the snapshot's)
Expected1Bids ==
    << <<<<"5", "7", "1", "1", ".", "7", "0", "0", "0", "0">>, <<"0", ".", "0", "0", "7", "4", "9", "8", "0", "0">>>>,
       <<<<"5", "7", "0", "9", ".", "2", "0", "0", "0", "0">>, <<"3", ".", "0", "0", "0", "0", "0", "0", "0", "0">>>>,
       <<<<"5", "7", "0", "8", ".", "3", "0", "0", "0", "0">>, <<"0", ".", "7", "5", "4", "8", "3", "9", "0", "7">>>>,
       <<<<"5", "7", "0", "7", ".", "8", "0", "0", "0", "0">>, <<"2", ".", "5", "0", "0", "0", "0", "0", "0", "0">>>>,
       <<<<"5", "7", "0", "7", ".", "4", "0", "0", "0", "0">>, <<"4", ".", "3", "3", "0", "0", "0", "0", "0", "0">>>>,
       <<<<"5", "7", "0", "7", ".", "0", "0", "0", "0", "0">>, <<"0", ".", "0", "0", "2", "0", "0", "0", "0", "0">>>>,
       <<<<"5", "7", "0", "6", ".", "9", "0", "0", "0", "0">>, <<"1", ".", "1", "7", "3", "0", "0", "0", "0", "0">>>>,
       <<<<"5", "7", "0", "6", ".", "4", "0", "0", "0", "0">>, <<"0", ".", "8", "5", "6", "0", "0", "0", "0", "0">>>>,
       <<<<"5", "7", "0", "6", ".", "3", "0", "0", "0", "0">>, <<"1", ".", "0", "0", "0", "0", "0", "0", "0", "0">>>>,
       <<<<"5", "7", "0", "5", ".", "9", "0", "0", "0", "0">>, <<"7", ".", "6", "2", "4", "0", "0", "0", "0", "0">>>> >>

\* get_expected_order_book2(), "bs"
Expected2Bids ==
    << <<<<"5", "7", "1", "1", ".", "7", "0", "0", "0", "0">>, <<"0", ".", "0", "0", "7", "4", "9", "8", "0", "0">>>>,
       <<<<"5", "7", "0", "9", ".", "4", "0", "0", "0", "0">>, <<"0", ".", "3", "0", "0", "0", "0", "0", "0", "0">>>>,
       <<<<"5", "7", "0", "9", ".", "2", "0", "0", "0", "0">>, <<"8", ".", "0", "0", "0", "0", "0", "0", "0", "0">>>>,
       <<<<"5", "7", "0", "8", ".", "3", "0", "0", "0", "0">>, <<"0", ".", "7", "5", "4", "8", "3", "9", "0", "7">>>>,
       <<<<"5", "7", "0", "7", ".", "8", "0", "0", "0", "0">>, <<"2", ".", "5", "0", "0", "0", "0", "0", "0", "0">>>>,
       <<<<"5", "7", "0", "7", ".", "4", "0", "0", "0", "0">>, <<"4", ".", "3", "3", "0", "0", "0", "0", "0", "0">>>>,
       <<<<"5", "7", "0", "7", ".", "0", "0", "0", "0", "0">>, <<"0", ".", "0", "0", "2", "0", "0", "0", "0", "0">>>>,
       <<<<"5", "7", "0", "6", ".", "9", "0", "0", "0", "0">>, <<"1", ".", "1", "7", "3", "0", "0", "0", "0", "0">>>>,
       <<<<"5", "7", "0", "6", ".", "4", "0", "0", "0", "0">>, <<"0", ".", "8", "5", "6", "0", "0", "0", "0", "0">>>>,
       <<<<"5", "7", "0", "6", ".", "3", "0", "0", "0", "0">>, <<"1", ".", "0", "0", "0", "0", "0", "0", "0", "0">>>> >>

\* get_expected_order_book3(), "bs"
Expected3Bids ==
    << <<<<"5", "7", "1", "1", ".", "7", "0", "0", "0", "0">>, <<"0", ".", "0", "0", "7", "4", "9", "8", "0", "0">>>>,
       <<<<"5", "7", "0", "9", ".", "4", "0", "0", "0", "0">>, <<"0", ".", "3", "0", "0", "0", "0", "0", "0", "0">>>>,
       <<<<"5", "7", "0", "9", ".", "2", "0", "0", "0", "0">>, <<"8", ".", "0", "0", "0", "0", "0", "0", "0", "0">>>>,
       <<<<"5", "7", "0", "7", ".", "8", "0", "0", "0", "0">>, <<"2", ".", "5", "0", "0", "0", "0", "0", "0", "0">>>>,
       <<<<"5", "7", "0", "7", ".", "4", "0", "0", "0", "0">>, <<"4", ".", "3", "3", "0", "0", "0", "0", "0", "0">>>>,
       <<<<"5", "7", "0", "7", ".", "0", "0", "0", "0", "0">>, <<"0", ".", "0", "0", "2", "0", "0", "0", "0", "0">>>>,
       <<<<"5", "7", "0", "6", ".", "9", "0", "0", "0", "0">>, <<"1", ".", "1", "7", "3", "0", "0", "0", "0", "0">>>>,
       <<<<"5", "7", "0", "6", ".", "4", "0", "0", "0", "0">>, <<"0", ".", "8", "5", "6", "0", "0", "0", "0", "0">>>>,
       <<<<"5", "7", "0", "6", ".", "3", "0", "0", "0", "0">>, <<"1", ".", "0", "0", "0", "0", "0", "0", "0", "0">>>>,
       <<<<"5", "7", "0", "5", ".", "9", "0", "0", "0", "0">>, <<"7", ".", "6", "2", "4", "0", "0", "0", "0", "0">>>> >>

\* the snapshot of test_order_book_checksum, "as"
ChecksumAsks ==
    << <<<<"0", ".", "0", "5", "0", "0", "5">>, <<"0", ".", "0", "0", "0", "0", "0", "5", "0", "0">>>>,
       <<<<"0", ".", "0", "5", "0", "1", "0">>, <<"0", ".", "0", "0", "0", "0", "0", "5", "0", "0">>>>,
       <<<<"0", ".", "0", "5", "0", "1", "5">>, <<"0", ".", "0", "0", "0", "0", "0", "5", "0", "0">>>>,
       <<<<"0", ".", "0", "5", "0", "2", "0">>, <<"0", ".", "0", "0", "0", "0", "0", "5", "0", "0">>>>,
       <<<<"0", ".", "0", "5", "0", "2", "5">>, <<"0", ".", "0", "0", "0", "0", "0", "5", "0", "0">>>>,
       <<<<"0", ".", "0", "5", "0", "3", "0">>, <<"0", ".", "0", "0", "0", "0", "0", "5", "0", "0">>>>,
       <<<<"0", ".", "0", "5", "0", "3", "5">>, <<"0", ".", "0", "0", "0", "0", "0", "5", "0", "0">>>>,
       <<<<"0", ".", "0", "5", "0", "4", "0">>, <<"0", ".", "0", "0", "0", "0", "0", "5", "0", "0">>>>,
       <<<<"0", ".", "0", "5", "0", "4", "5">>, <<"0", ".", "0", "0", "0", "0", "0", "5", "0", "0">>>>,
       <<<<"0", ".", "0", "5", "0", "5", "0">>, <<"0", ".", "0", "0", "0", "0", "0", "5", "0", "0">>>> >>

\* the snapshot of test_order_book_checksum, "bs"
ChecksumBids ==
    << <<<<"0", ".", "0", "5", "0", "0", "0">>, <<"0", ".", "0", "0", "0", "0", "0", "5", "0", "0">>>>,
       <<<<"0", ".", "0", "4", "9", "9", "5">>, <<"0", ".", "0", "0", "0", "0", "0", "5", "0", "0">>>>,
       <<<<"0", ".", "0", "4", "9", "9", "0">>, <<"0", ".", "0", "0", "0", "0", "0", "5", "0", "0">>>>,
       <<<<"0", ".", "0", "4", "9", "8", "0">>, <<"0", ".", "0", "0", "0", "0", "0", "5", "0", "0">>>>,
       <<<<"0", ".", "0", "4", "9", "7", "5">>, <<"0", ".", "0", "0", "0", "0", "0", "5", "0", "0">>>>,
       <<<<"0", ".", "0", "4", "9", "7", "0">>, <<"0", ".", "0", "0", "0", "0", "0", "5", "0", "0">>>>,
       <<<<"0", ".", "0", "4", "9", "6", "5">>, <<"0", ".", "0", "0", "0", "0", "0", "5", "0", "0">>>>,
       <<<<"0", ".", "0", "4", "9", "6", "0">>, <<"0", ".", "0", "0", "0", "0", "0", "5", "0", "0">>>>,
       <<<<"0", ".", "0", "4", "9", "5", "5">>, <<"0", ".", "0", "0", "0", "0", "0", "5", "0", "0">>>>,
       <<<<"0", ".", "0", "4", "9", "5", "0">>, <<"0", ".", "0", "0", "0", "0", "0", "5", "0", "0">>>> >>

\* Entries [price, volume, timestamp] and [price, volume] of a list.
Triples(rows) == [i \in 1..Len(rows) |-> Entry(rows[i][1], rows[i][2])]
Pairs(rows) == [i \in 1..Len(rows) |-> Arr(<<Str(rows[i][1]), Str(rows[i][2])>>)]

SnapshotPayload(as, bs) == Obj(("as" :> Arr(as)) @@ ("bs" :> Arr(bs)))

get_snapshot == BookMsg(SnapshotPayload(Triples(SnapshotAsks), Triples(SnapshotBids)))
get_expected_order_book1 == BookMsg(SnapshotPayload(Pairs(SnapshotAsks), Pairs(Expected1Bids)))
get_expected_order_book2 == BookMsg(SnapshotPayload(Pairs(SnapshotAsks), Pairs(Expected2Bids)))
get_expected_order_book3 == BookMsg(SnapshotPayload(Pairs(SnapshotAsks), Pairs(Expected3Bids)))
\* The checksum test's message has two elements only.
checksum_snapshot ==
    Arr(<<Num, SnapshotPayload(Triples(ChecksumAsks), Triples(ChecksumBids))>>)

get_update1 ==
    BookMsg(Obj(
        ("b" :> Arr(<< Entry(<<"5", "7", "0", "9", ".", "2", "0", "0", "0", "0">>, <<"3", ".", "0", "0", "0", "0", "0", "0", "0", "0">>),
                       Entry(<<"5", "7", "0", "8", ".", "2", "0", "0", "0", "0">>, <<"0", ".", "0", "0", "0", "0", "0", "0", "0", "0">>),
                       Arr(<<Str(<<"5", "7", "0", "5", ".", "9", "0", "0", "0", "0">>), Str(<<"7", ".", "6", "2", "4", "0", "0", "0", "0", "0">>), TS, Republish>>) >>))
        @@ ("c" :> Str(<<"2", "4", "7", "0", "1", "2", "8", "5", "9", "1">>))))

get_update2 ==
    BookMsg(Obj(
        ("b" :> Arr(<< Entry(<<"5", "7", "0", "9", ".", "2", "0", "0", "0", "0">>, <<"8", ".", "0", "0", "0", "0", "0", "0", "0", "0">>),
                       Entry(<<"5", "7", "0", "9", ".", "4", "0", "0", "0", "0">>, <<"0", ".", "3", "0", "0", "0", "0", "0", "0", "0">>) >>))
        @@ ("c" :> Str(<<"4", "1", "4", "8", "0", "7", "2", "5", "0", "5">>))))

get_update3 ==
    BookMsg(Obj(
        ("b" :> Arr(<< Entry(<<"5", "7", "0", "8", ".", "3", "0", "0", "0", "0">>, <<"0", ".", "0", "0", "0", "0", "0", "0", "0", "0">>),
                       Arr(<<Str(<<"5", "7", "0", "5", ".", "9", "0", "0", "0", "0">>), Str(<<"7", ".", "6", "2", "4", "0", "0", "0", "0", "0">>), TS, Republish>>) >>))
        @@ ("c" :> Str(<<"3", "0", "9", "3", "5", "6", "9", "8", "6", "3">>))))

(***************************************************************************)
(* Scenarios over the fixtures: a book of depth 10 (the tests') or deeper  *)
(* receives the fixtures' snapshots, each handed over as the tests do (the *)
(* whole message) or as main does (the payload, element 1), and the        *)
(* fixtures' updates, handed over as the tests do.                         *)
(***************************************************************************)
MaxCalls == 4

ScenarioDepths == {ChecksumLevels, ChecksumLevels + 2}

Snapshots == [snapshot |-> get_snapshot, checksum_snapshot |-> checksum_snapshot]
Updates == [update1 |-> get_update1, update2 |-> get_update2, update3 |-> get_update3]

\* The argument handed over: the message, or its element 1.
Handed(msg, shape) == IF shape = "message" THEN msg ELSE get_index(msg, 1)

ScenarioInit ==
    /\ depth \in ScenarioDepths
    /\ asks = <<>>
    /\ bids = <<>>
    /\ status = "ok"
    /\ last = Idle
    /\ calls = <<>>

ScenarioCall(op, name, shape, arg, r) ==
    /\ asks' = r.asks
    /\ bids' = r.bids
    /\ status' = IF r.panic THEN "panicked" ELSE "ok"
    /\ last' = Call(op, arg, NoRet)
    /\ calls' = Append(calls, <<op, name, shape>>)
    /\ UNCHANGED depth

CanCall == status = "ok" /\ Len(calls) < MaxCalls

ScenarioInitialize(name, shape) ==
    /\ CanCall
    /\ LET arg == Handed(Snapshots[name], shape)
       IN  ScenarioCall("initialize", name, shape, arg,
                        initialize(depth, asks, bids, arg))

ScenarioUpdate(name, shape) ==
    /\ CanCall
    /\ LET arg == Handed(Updates[name], shape)
       IN  ScenarioCall("update", name, shape, arg, update(depth, asks, bids, arg))

ScenarioChecksum ==
    /\ CanCall
    /\ last' = Call("calculate_checksum", None, calculate_checksum(asks, bids))
    /\ calls' = Append(calls, <<"calculate_checksum", "", "">>)
    /\ UNCHANGED <<depth, asks, bids, status>>

ScenarioNext ==
    \/ \E n \in DOMAIN Snapshots, sh \in {"message", "payload"} : ScenarioInitialize(n, sh)
    \/ \E n \in DOMAIN Updates : ScenarioUpdate(n, "message")
    \/ ScenarioChecksum

SpecScenario == ScenarioInit /\ [][ScenarioNext]_vars

(***************************************************************************)
(* Properties of the OrderBook API (Spec)                                  *)
(***************************************************************************)
\* The call named op has returned (it did not panic).
After(op) == last.op = op /\ status = "ok"

NonDecreasing(s) == \A i, j \in 1..Len(s) : i < j => ~F64Less(s[j].price, s[i].price)
NonIncreasing(s) == \A i, j \in 1..Len(s) : i < j => ~F64Less(s[i].price, s[j].price)
StrictlyAscending(s) == \A i, j \in 1..Len(s) : i < j => F64Less(s[i].price, s[j].price)
StrictlyDescending(s) == \A i, j \in 1..Len(s) : i < j => F64Less(s[j].price, s[i].price)
NoDuplicatePrice(s) == \A i, j \in 1..Len(s) : i < j => ~F64Eq(s[i].price, s[j].price)
HasPrice(s, p) == \E i \in 1..Len(s) : F64Eq(s[i].price, p)
Without(s, i) == SubSeq(s, 1, i - 1) \o SubSeq(s, i + 1, Len(s))

\* The payload of the message the last call was given, and its diff entries
\* on side k ("a" or "b").
Payload == get_index(last.arg, 1)
EntriesOf(k) ==
    IF Payload.t = "obj" /\ k \in DOMAIN Payload.v /\ Payload.v[k].t = "arr"
    THEN Payload.v[k].v ELSE <<>>
OtherKey(k) == IF k = "a" THEN "b" ELSE "a"

\* The update that returned carried a single diff entry, on side k, with
\* the price, volume and timestamp strings the code requires.
SoleEntry(k) ==
    /\ After("update")
    /\ Len(EntriesOf(k)) = 1
    /\ Len(EntriesOf(OtherKey(k))) = 0
    /\ LET e == EntriesOf(k)[1]
       IN  e.t = "arr" /\ Len(e.v) >= 3 /\ \A i \in 1..3 : e.v[i].t = "str"
EntryPrice(k) == ParseOrZero(EntriesOf(k)[1].v[1].v)
EntryVolume(k) == ParseOrZero(EntriesOf(k)[1].v[2].v)

PreSide(k) == IF k = "a" THEN last.pre.asks ELSE last.pre.bids
PostSide(k) == IF k = "a" THEN asks ELSE bids
OtherSideKept(k) == IF k = "a" THEN bids = last.pre.bids ELSE asks = last.pre.asks

\* C1: after any sequence of initialize and update calls on a store created
\* with depth d, whenever a call has returned, asks and bids hold at most d
\* levels each.
DepthBound == status = "ok" => Len(asks) <= depth /\ Len(bids) <= depth

\* An update inserted a level into a side that was full: one level left.
DepthBoundWitness ==
    /\ After("update")
    /\ depth >= 1
    /\ Len(last.pre.asks) = depth
    /\ Len(asks) = depth
    /\ \E i \in 1..Len(asks) : ~HasPrice(last.pre.asks, asks[i].price)
    /\ \E i \in 1..Len(last.pre.asks) : ~HasPrice(asks, last.pre.asks[i].price)

\* C2 (as claimed): after every initialize or update, for any snapshot or
\* diff input, asks is strictly ascending and bids strictly descending by
\* price, so no two levels of a side share a price.
StrictlySorted ==
    (After("initialize") \/ After("update")) =>
        StrictlyAscending(asks) /\ StrictlyDescending(bids)

\* The prices initialize keeps from the entries on side k of its snapshot.
KeptPrices(list) ==
    LET kept == FilterMapLevels(Take(list, depth))
    IN  [i \in 1..Len(kept) |-> kept[i].price]
SnapshotList(k) ==
    IF last.arg.t = "obj" /\ k \in DOMAIN last.arg.v /\ last.arg.v[k].t = "arr"
    THEN last.arg.v[k].v ELSE <<>>
DistinctKept(k) ==
    LET ps == KeptPrices(SnapshotList(k))
    IN  \A i, j \in 1..Len(ps) : i < j => ~F64Eq(ps[i], ps[j])

\* C2 (amended): after every initialize or update, asks is sorted ascending
\* and bids descending by price; an update never adds a second level at a
\* price a side holds; initialize leaves a side it replaces free of equal
\* prices when the entries it keeps have distinct prices.  So the order is
\* strict unless a snapshot listed a price twice on a side.
SortedSides ==
    /\ (After("initialize") \/ After("update")) =>
            NonDecreasing(asks) /\ NonIncreasing(bids)
    /\ After("update") =>
            /\ NoDuplicatePrice(last.pre.asks) => StrictlyAscending(asks)
            /\ NoDuplicatePrice(last.pre.bids) => StrictlyDescending(bids)
    /\ After("initialize") =>
            /\ (SnapshotList("as") # <<>> /\ DistinctKept("as")) => StrictlyAscending(asks)
            /\ (SnapshotList("bs") # <<>> /\ DistinctKept("bs")) => StrictlyDescending(bids)

\* initialize sorted a side whose snapshot entries came out of order.
SortedSidesWitness ==
    /\ After("initialize")
    /\ Len(asks) = 2
    /\ LET ps == KeptPrices(SnapshotList("as"))
       IN  Len(ps) = 2 /\ F64Less(ps[2], ps[1])
    /\ StrictlyAscending(asks)

\* C4 (as claimed): an update whose single diff entry has volume 0.0 removes
\* exactly the one level with that price when such a level is present, keeps
\* every other level of both sides with its volume and order, and changes
\* nothing when no level has that price.
DeleteRemovesOneLevel ==
    \A k \in {"a", "b"} :
        (SoleEntry(k) /\ F64Eq(EntryVolume(k), Zero)) =>
            /\ OtherSideKept(k)
            /\ IF HasPrice(PreSide(k), EntryPrice(k))
               THEN \E i \in 1..Len(PreSide(k)) :
                        /\ F64Eq(PreSide(k)[i].price, EntryPrice(k))
                        /\ PostSide(k) = Without(PreSide(k), i)
               ELSE PostSide(k) = PreSide(k)

\* C4 (amended): an update whose single diff entry has volume 0.0 removes
\* every level of that side with that price (exactly one level when the
\* side's prices are distinct) and keeps every other level of both sides
\* with its volume and order; when no level has that price the store is
\* unchanged.
DeleteRemovesLevelsAtPrice ==
    \A k \in {"a", "b"} :
        (SoleEntry(k) /\ F64Eq(EntryVolume(k), Zero)) =>
            LET gone(l) == F64Eq(l.price, EntryPrice(k))
                kept(l) == ~gone(l)
            IN  /\ OtherSideKept(k)
                /\ PostSide(k) = SelectSeq(PreSide(k), kept)
                /\ Len(SelectSeq(PreSide(k), gone)) = 1
                        => Len(PostSide(k)) = Len(PreSide(k)) - 1
                /\ ~HasPrice(PreSide(k), EntryPrice(k)) => PostSide(k) = PreSide(k)

\* A delete took the first of two asks while bids were present.
DeleteWitness ==
    /\ SoleEntry("a")
    /\ F64Eq(EntryVolume("a"), Zero)
    /\ Len(last.pre.asks) = 2
    /\ F64Eq(last.pre.asks[1].price, EntryPrice("a"))
    /\ asks = <<last.pre.asks[2]>>
    /\ bids # <<>>

\* C5: an update whose single diff entry has a nonzero volume for a price
\* present on that side changes only that level's volume: the side's length,
\* its prices, and the order and volumes of all other levels stay, and so
\* does the other side.
VolumeReplaced ==
    \A k \in {"a", "b"} :
        (SoleEntry(k) /\ ~F64Eq(EntryVolume(k), Zero)
                /\ HasPrice(PreSide(k), EntryPrice(k))) =>
            /\ OtherSideKept(k)
            /\ Len(PostSide(k)) = Len(PreSide(k))
            /\ \E i \in 1..Len(PreSide(k)) :
                    /\ F64Eq(PreSide(k)[i].price, EntryPrice(k))
                    /\ PostSide(k) = [PreSide(k) EXCEPT ![i].volume = EntryVolume(k)]

\* The volume of one of two bids changed.
VolumeReplacedWitness ==
    /\ SoleEntry("b")
    /\ ~F64Eq(EntryVolume("b"), Zero)
    /\ Len(last.pre.bids) = 2
    /\ F64Eq(last.pre.bids[2].price, EntryPrice("b"))
    /\ ~F64Eq(last.pre.bids[2].volume, EntryVolume("b"))
    /\ bids[2].volume = EntryVolume("b")
    /\ bids[1] = last.pre.bids[1]

\* The side k after a level (p, v) with an absent price went in at its
\* place in the price order and the levels past depth were dropped.
Ranked(k, side, p, v) ==
    LET ahead(l) == IF k = "a" THEN F64Less(l.price, p) ELSE F64Less(p, l.price)
        behind(l) == ~ahead(l)
        all == SelectSeq(side, ahead) \o <<Level(p, v)>> \o SelectSeq(side, behind)
    IN  SubSeq(all, 1, Min(depth, Len(all)))

\* C6: an update whose diff entry has a nonzero volume for a price absent
\* from that side inserts a level at its price-ordered position (ascending
\* for asks, descending for bids); when the side then exceeds depth the
\* worst-ranked levels (highest asks, lowest bids) are evicted until the
\* length is depth.
InsertRanked ==
    \A k \in {"a", "b"} :
        (SoleEntry(k) /\ ~F64Eq(EntryVolume(k), Zero)
                /\ ~HasPrice(PreSide(k), EntryPrice(k))) =>
            /\ OtherSideKept(k)
            /\ PostSide(k) = Ranked(k, PreSide(k), EntryPrice(k), EntryVolume(k))
            /\ Len(PostSide(k)) = Min(Len(PreSide(k)) + 1, depth)

\* A new bid priced above an existing bid of a full side went ahead of it
\* and the lowest bid was evicted.
InsertRankedWitness ==
    /\ SoleEntry("b")
    /\ ~F64Eq(EntryVolume("b"), Zero)
    /\ depth = 2
    /\ Len(last.pre.bids) = 2
    /\ ~HasPrice(last.pre.bids, EntryPrice("b"))
    /\ F64Less(last.pre.bids[1].price, EntryPrice("b"))
    /\ bids = <<Level(EntryPrice("b"), EntryVolume("b")), last.pre.bids[1]>>

(***************************************************************************)
(* Properties of the message loop (SpecMain)                               *)
(***************************************************************************)
\* C3: every message the loop classifies as an update has its diff entries
\* applied: after process_order_book_update returns the store is the prior
\* store with the payload's ask and bid entries applied and truncated to
\* depth, and the checksum compared with "c" is that of the updated store.
UpdateApplied ==
    After("process_order_book_update") =>
        LET applied == update(depth, last.pre.asks, last.pre.bids, last.arg)
        IN  /\ asks = applied.asks
            /\ bids = applied.bids
            /\ last.ret = ChecksumReport(Payload, applied.asks, applied.bids)

(***************************************************************************)
(* Properties of the scenarios over the test fixtures (SpecScenario)       *)
(***************************************************************************)
\* The levels a list of the fixtures stands for.
Levels(rows) ==
    [i \in 1..Len(rows) |-> Level(parse_f64(rows[i][1]), parse_f64(rows[i][2]))]

Prices(side) == [i \in 1..Len(side) |-> side[i].price]

\* The calls of test_order_book_update, in order.
TestCalls ==
    << <<"initialize", "snapshot", "message">>,
       <<"update", "update1", "message">>,
       <<"update", "update2", "message">>,
       <<"update", "update3", "message">> >>

ExpectedBooks ==
    <<get_expected_order_book1, get_expected_order_book2, get_expected_order_book3>>

\* The book a message documents: the levels of its "as" and "bs" lists.
BookOf(msg) == initialize(ChecksumLevels, <<>>, <<>>, get_index(msg, 1))

\* C7: a depth-10 store initialized with the XBT/USD snapshot and given the
\* three updates of test_order_book_update in order holds, after each
\* update, the asks and bids of the corresponding expected book, level for
\* level; after the first update the bids are 5711.70, 5709.20 (volume 3.0),
\* 5708.30, 5707.80, 5707.40, 5707.00, 5706.90, 5706.40, 5706.30, 5705.90
\* and the asks are the snapshot's.
UpdateScenario ==
    \A n \in 1..3 :
        (depth = ChecksumLevels /\ status = "ok" /\ calls = SubSeq(TestCalls, 1, n + 1)) =>
            LET expected == BookOf(ExpectedBooks[n])
            IN  /\ asks = expected.asks
                /\ bids = expected.bids
                /\ n = 1 => /\ bids = Levels(Expected1Bids)
                            /\ Len(bids) = 10
                            /\ asks = Levels(SnapshotAsks)

\* C8: initialize called with the whole snapshot message, as the tests call
\* it, populates a depth-10 store: for a snapshot of 10 parsable asks and 10
\* parsable bids the store afterwards holds 10 asks and 10 bids with the
\* snapshot's prices.
InitializePopulates ==
    \A n \in DOMAIN Snapshots :
        (depth = ChecksumLevels /\ status = "ok" /\ calls # <<>>
                /\ calls[Len(calls)] = <<"initialize", n, "message">>) =>
            LET payload == get_index(Snapshots[n], 1)
                as == get_key(payload, "as").v
                bs == get_key(payload, "bs").v
            IN  /\ Len(asks) = 10
                /\ Len(bids) = 10
                /\ Prices(asks) = [i \in 1..10 |-> parse_f64(as[i].v[1].v)]
                /\ Prices(bids) = [i \in 1..10 |-> parse_f64(bs[i].v[1].v)]

\* C9: for a depth-10 store initialized as in test_order_book_checksum from
\* the snapshot of 10 asks priced 0.05005..0.05050 and 10 bids priced
\* 0.05000..0.04950, each of volume "0.00000500", calculate_checksum
\* returns 974947235.
ChecksumOracle ==
    (depth = ChecksumLevels
        /\ calls = << <<"initialize", "checksum_snapshot", "message">>,
                      <<"calculate_checksum", "", "">> >>) =>
        last.ret = U32(974947235)

\* Levels below the tenth that a deeper store could hold.
DeeperLevels ==
    { <<>>,
      <<Level(Fin(7000, 0), Fin(0, 1)), Level(Fin(3, 0), Fin(4, 50000000))>> }

\* The stores that agree with side on its first ten levels.
SameTopTen(side) ==
    IF Len(side) < ChecksumLevels THEN {side}
    ELSE {SubSeq(side, 1, ChecksumLevels) \o t : t \in DeeperLevels}

\* C10: calculate_checksum leaves the store unchanged, and its value is that
\* of every store that agrees with this one on the first 10 asks and the
\* first 10 bids, whatever the deeper levels are.
ChecksumOfTopTen ==
    last.op = "calculate_checksum" =>
        /\ asks = last.pre.asks
        /\ bids = last.pre.bids
        /\ \A a2 \in SameTopTen(asks), b2 \in SameTopTen(bids) :
                calculate_checksum(a2, b2) = last.ret

\* The checksum of a store with 10 asks and more than 10 bids was taken.
ChecksumOfTopTenWitness ==
    /\ last.op = "calculate_checksum"
    /\ Len(asks) = ChecksumLevels
    /\ Len(bids) > ChecksumLevels
    /\ last.ret # U32(0)

(***************************************************************************)
(* Further properties of the OrderBook API (Spec)                          *)
(***************************************************************************)
\* The levels calculate_checksum reads.
ChecksumRead(a, b) == Take(a, ChecksumLevels) \o Take(b, ChecksumLevels)

\* C11: in the checksum's input string the segment of a level's price (5
\* decimals) and of its volume (8 decimals), with the decimal point removed
\* and leading zeros stripped, is never the empty string, a level whose
\* price or volume is zero included.
SegmentsNonEmpty ==
    last.op = "calculate_checksum" =>
        \A i \in 1..Len(ChecksumRead(asks, bids)) :
            /\ Segment(ChecksumRead(asks, bids)[i].price, PricePrecision) # <<>>
            /\ Segment(ChecksumRead(asks, bids)[i].volume, VolumePrecision) # <<>>

\* A wire entry whose first two elements are strings that parse as numbers,
\* and the level it stands for.
Parsable(e) ==
    /\ e.t = "arr" /\ Len(e.v) >= 2
    /\ e.v[1].t = "str" /\ e.v[2].t = "str"
    /\ parse_f64(e.v[1].v).k # "err"
    /\ parse_f64(e.v[2].v).k # "err"
LevelOfEntry(e) == Level(parse_f64(e.v[1].v), parse_f64(e.v[2].v))

\* A side named by a snapshot key, and whether the snapshot lists it.
SnapshotSideOf(k) == IF k = "as" THEN asks ELSE bids
SnapshotPre(k) == IF k = "as" THEN last.pre.asks ELSE last.pre.bids
Listed(k) == last.arg.t = "obj" /\ k \in DOMAIN last.arg.v /\ last.arg.v[k].t = "arr"

\* The levels of side k after an update that the side did not hold before.
NewLevels(k) ==
    {PostSide(k)[i] : i \in {j \in 1..Len(PostSide(k)) :
                                \A n \in 1..Len(PreSide(k)) : PreSide(k)[n] # PostSide(k)[j]}}

\* After initialize every level of a listed side is the level of an entry
\* of the list whose price and volume strings parse.
InitializeKeepsParsable ==
    After("initialize") =>
        \A k \in {"as", "bs"} :
            Listed(k) =>
                \A i \in 1..Len(SnapshotSideOf(k)) :
                    \E n \in 1..Len(SnapshotList(k)) :
                        /\ Parsable(SnapshotList(k)[n])
                        /\ SnapshotSideOf(k)[i] = LevelOfEntry(SnapshotList(k)[n])

\* C12 (as claimed): after every initialize or update no level of the store
\* originates from a wire entry whose price string or volume string failed
\* to parse as a number.
NoUnparsableOrigin ==
    /\ InitializeKeepsParsable
    /\ After("update") =>
            \A k \in {"a", "b"} :
                \A l \in NewLevels(k) :
                    \E n \in 1..Len(EntriesOf(k)) :
                        /\ Parsable(EntriesOf(k)[n])
                        /\ l = LevelOfEntry(EntriesOf(k)[n])

\* C12 (amended): after initialize no level of a listed side originates
\* from an entry whose price or volume string failed to parse; after update
\* every level the side did not hold before comes from an entry whose volume
\* string parsed to a nonzero number, at the entry's price when the price
\* string parsed and at price 0.0 when it did not.
UnparsableOrigin ==
    /\ InitializeKeepsParsable
    /\ After("update") =>
            \A k \in {"a", "b"} :
                \A l \in NewLevels(k) :
                    \E n \in 1..Len(EntriesOf(k)) :
                        LET e == EntriesOf(k)[n]
                        IN  /\ e.t = "arr" /\ Len(e.v) >= 3
                            /\ \A i \in 1..3 : e.v[i].t = "str"
                            /\ parse_f64(e.v[2].v).k # "err"
                            /\ ~F64Eq(parse_f64(e.v[2].v), Zero)
                            /\ l.volume = parse_f64(e.v[2].v)
                            /\ l.price = IF parse_f64(e.v[1].v).k = "err" THEN Zero
                                         ELSE parse_f64(e.v[1].v)

\* An update entry with an unparsable price left a new ask at price 0.0.
UnparsableOriginWitness ==
    /\ After("update")
    /\ ~HasPrice(last.pre.asks, Zero)
    /\ HasPrice(asks, Zero)
    /\ Len(EntriesOf("a")) = 1
    /\ EntriesOf("a")[1].v[1].t = "str"
    /\ parse_f64(EntriesOf("a")[1].v[1].v).k = "err"

(***************************************************************************)
(* Further properties of the message loop (SpecMain)                       *)
(***************************************************************************)
\* C13: the message loop stops only on a transport failure (read error) or
\* at the end of the stream: after a text message that fails to decode, has
\* an unknown shape, or carries a malformed diff entry or checksum, the loop
\* goes on to the next message.
StopsOnlyOnTransport ==
    /\ status # "ok" => last.op \in {"read_error", "end"}
    /\ last.op \in {"decode_error", "unknown", "process_order_book_update",
                    "process_heartbeat"} => status = "ok"

\* The payload with its "c" member set to c, and with no "c" member.
WithC(payload, c) ==
    Obj([k \in DOMAIN payload.v \cup {"c"} |-> IF k = "c" THEN c ELSE payload.v[k]])
WithoutC(payload) == Obj([k \in DOMAIN payload.v \ {"c"} |-> payload.v[k]])

\* The payloads that differ from the one received in the checksum field only.
ChecksumVariants(payload) ==
    {WithoutC(payload)} \cup {WithC(payload, c) : c \in ChecksumFields}

\* C14: the store after process_order_book_update does not depend on the
\* message's checksum field: with "c" absent, no string, no unsigned 32-bit
\* number, matching or mismatching, the store afterwards is the same, it is
\* not reset, and the loop stays ready for the next update message.
ChecksumFieldIgnored ==
    last.op = "process_order_book_update" =>
        /\ status = "ok"
        /\ last.ret \in {"no_c", "parse_error", "match", "mismatch"}
        /\ \A alt \in ChecksumVariants(Payload) :
                LET r == update(depth, last.pre.asks, last.pre.bids, alt)
                IN  asks = r.asks /\ bids = r.bids

\* An update message whose checksum mismatched reached a populated store.
ChecksumFieldIgnoredWitness ==
    /\ last.op = "process_order_book_update"
    /\ last.ret = "mismatch"
    /\ status = "ok"
    /\ asks # <<>>
    /\ bids # <<>>

\* C15: a message that is neither snapshot nor update leaves the store
\* unchanged and does not stop the loop: a flat object (heartbeat or system
\* message) and an indexed message whose payload has none of "a", "b" and
\* not both "as" and "bs" change nothing of asks, bids and depth.
IgnoredMessageKeepsStore ==
    last.op \in {"process_heartbeat", "unknown"} =>
        /\ asks = last.pre.asks
        /\ bids = last.pre.bids
        /\ depth = MainDepth
        /\ status = "ok"

\* A payload with "as" only reached a populated store and was reported
\* unknown.
IgnoredMessageWitness ==
    /\ last.op = "unknown"
    /\ get_key(Payload, "as") # None
    /\ get_key(Payload, "bs") = None
    /\ asks # <<>>
    /\ bids # <<>>
    /\ status = "ok"

\* C16: over any sequence of received messages the store is created empty,
\* is populated by a snapshot exactly once and is afterwards changed by
\* update applications only: no second snapshot message re-initializes a
\* populated store, and nothing but a snapshot or an update message changes
\* the store.
PopulatedOnce ==
    /\ last.op = "initialize" => last.pre.asks = <<>> /\ last.pre.bids = <<>>
    /\ (last.op # "idle" /\ (asks # last.pre.asks \/ bids # last.pre.bids)) =>
            last.op \in {"initialize", "process_order_book_update"}

(***************************************************************************)
(* Properties of initialize and of one update as a whole (Spec)            *)
(***************************************************************************)
\* The places, among the first depth entries of the snapshot's list for
\* side k, of the entries whose price and volume parse.
KeptIndexes(k) ==
    {n \in 1..Min(depth, Len(SnapshotList(k))) : Parsable(SnapshotList(k)[n])}

\* How often side holds the level l, and how often the kept entries give it.
TimesHeld(side, l) == Cardinality({i \in 1..Len(side) : side[i] = l})
TimesKept(k, l) ==
    Cardinality({n \in KeptIndexes(k) : LevelOfEntry(SnapshotList(k)[n]) = l})

\* C17: after initialize on a payload each side the payload lists consists
\* of exactly the entries with parsable price and volume among the first
\* depth entries of its list, sorted (asks ascending, bids descending);
\* entries past the first depth are never used, also when some of the first
\* depth are dropped or when later entries rank better.
InitializeTakesFirst ==
    After("initialize") =>
        \A k \in {"as", "bs"} :
            Listed(k) =>
                /\ Len(SnapshotSideOf(k)) = Cardinality(KeptIndexes(k))
                /\ \A n \in KeptIndexes(k) :
                        TimesHeld(SnapshotSideOf(k), LevelOfEntry(SnapshotList(k)[n]))
                            = TimesKept(k, LevelOfEntry(SnapshotList(k)[n]))
                /\ IF k = "as" THEN NonDecreasing(asks) ELSE NonIncreasing(bids)

\* With depth 1, the second of two parsable ask entries ranked better than
\* the first and was not used.
InitializeTakesFirstWitness ==
    /\ After("initialize")
    /\ depth = 1
    /\ Listed("as")
    /\ Len(SnapshotList("as")) = 2
    /\ Parsable(SnapshotList("as")[1])
    /\ Parsable(SnapshotList("as")[2])
    /\ F64Less(LevelOfEntry(SnapshotList("as")[2]).price,
               LevelOfEntry(SnapshotList("as")[1]).price)
    /\ asks = <<LevelOfEntry(SnapshotList("as")[1])>>

\* The book initialize gives an empty store for the same payload.
FreshBook == initialize(depth, <<>>, <<>>, last.arg)

\* C18: initialize fully replaces each side whose list ("as" / "bs") the
\* payload carries, so that the side afterwards is what the payload alone
\* determines and no level from before the call survives on it, and leaves
\* a side the payload does not list exactly as it was.
InitializeReplaces ==
    After("initialize") =>
        /\ asks = IF Listed("as") THEN FreshBook.asks ELSE last.pre.asks
        /\ bids = IF Listed("bs") THEN FreshBook.bids ELSE last.pre.bids

\* A payload listing asks only replaced the asks of a populated store by
\* other levels and kept its bids.
InitializeReplacesWitness ==
    /\ After("initialize")
    /\ Listed("as") /\ ~Listed("bs")
    /\ last.pre.asks # <<>>
    /\ asks # <<>>
    /\ \A i \in 1..Len(asks) : TimesHeld(last.pre.asks, asks[i]) = 0
    /\ bids # <<>>
    /\ bids = last.pre.bids

\* The price and volume strings of the single diff entry on side k, and the
\* number a string stands for in update: 0.0 when it does not parse.
RawPrice(k) == EntriesOf(k)[1].v[1].v
RawVolume(k) == EntriesOf(k)[1].v[2].v
Unparsable(s) == parse_f64(s).k = "err"
TakenAs(s) == IF Unparsable(s) THEN Zero ELSE parse_f64(s)

\* C19: in update a diff entry whose price or volume string fails to parse
\* is not dropped but applied with that value taken as 0.0: an unparsable
\* volume removes the level at the entry's price, if present, and an
\* unparsable price with a nonzero volume updates the level at price 0.0
\* or, when there is none, inserts a level at price 0.0 at its place in the
\* order (under the depth bound, as any inserted level).
UnparsableAsZero ==
    \A k \in {"a", "b"} :
        SoleEntry(k) =>
            LET p == TakenAs(RawPrice(k))
                v == TakenAs(RawVolume(k))
                kept(l) == ~F64Eq(l.price, p)
            IN  /\ Unparsable(RawVolume(k)) =>
                        /\ PostSide(k) = SelectSeq(PreSide(k), kept)
                        /\ OtherSideKept(k)
                /\ (Unparsable(RawPrice(k)) /\ ~F64Eq(v, Zero)) =>
                        /\ IF HasPrice(PreSide(k), Zero)
                           THEN \E i \in 1..Len(PreSide(k)) :
                                    /\ F64Eq(PreSide(k)[i].price, Zero)
                                    /\ PostSide(k) = [PreSide(k) EXCEPT ![i].volume = v]
                           ELSE PostSide(k) = Ranked(k, PreSide(k), Zero, v)
                        /\ OtherSideKept(k)

\* An entry with an unparsable volume removed one of two bids.
UnparsableAsZeroWitness ==
    /\ SoleEntry("b")
    /\ Unparsable(RawVolume("b"))
    /\ ~Unparsable(RawPrice("b"))
    /\ Len(last.pre.bids) = 2
    /\ HasPrice(last.pre.bids, parse_f64(RawPrice("b")))
    /\ Len(bids) = 1
    /\ ~HasPrice(bids, parse_f64(RawPrice("b")))

\* The side k obtained from side by applying the diff entries in order with
\* no depth bound: an entry without three strings is skipped, a volume of
\* 0.0 deletes, a present price has its volume replaced, an absent price is
\* inserted at its place in the order.
RECURSIVE Unbounded(_, _, _)
Unbounded(k, side, entries) ==
    IF entries = <<>> THEN side
    ELSE LET e == Head(entries)
             wellFormed == /\ e.t = "arr" /\ Len(e.v) >= 3
                           /\ \A i \in 1..3 : e.v[i].t = "str"
             p == TakenAs(e.v[1].v)
             v == TakenAs(e.v[2].v)
             kept(l) == ~F64Eq(l.price, p)
             ahead(l) == IF k = "a" THEN F64Less(l.price, p) ELSE F64Less(p, l.price)
             behind(l) == ~ahead(l)
             first == CHOOSE i \in 1..Len(side) :
                        /\ F64Eq(side[i].price, p)
                        /\ \A j \in 1..(i - 1) : ~F64Eq(side[j].price, p)
             next == IF ~wellFormed THEN side
                     ELSE IF F64Eq(v, Zero) THEN SelectSeq(side, kept)
                     ELSE IF HasPrice(side, p) THEN [side EXCEPT ![first].volume = v]
                     ELSE SelectSeq(side, ahead) \o <<Level(p, v)>>
                            \o SelectSeq(side, behind)
         IN  Unbounded(k, next, Tail(entries))

BestRanked(side) == SubSeq(side, 1, Min(depth, Len(side)))

\* C20: within one update the depth bound is enforced once, after all
\* entries of both sides have been applied in order: each side afterwards is
\* the depth best-ranked levels (lowest asks, highest bids) of the side that
\* applying every entry with no intermediate eviction gives.
TruncatedOnce ==
    After("update") =>
        /\ asks = BestRanked(Unbounded("a", last.pre.asks, EntriesOf("a")))
        /\ bids = BestRanked(Unbounded("b", last.pre.bids, EntriesOf("b")))

\* On a full side of asks an entry inserted a worst-ranked level, the next
\* entry deleted another level, and the inserted level stayed.
TruncatedOnceWitness ==
    /\ After("update")
    /\ depth = 2
    /\ Len(last.pre.asks) = 2
    /\ Len(EntriesOf("a")) = 2
    /\ \A n \in 1..2 : Parsable(EntriesOf("a")[n])
    /\ ~F64Eq(LevelOfEntry(EntriesOf("a")[1]).volume, Zero)
    /\ F64Eq(LevelOfEntry(EntriesOf("a")[2]).volume, Zero)
    /\ Len(asks) = 2
    /\ asks[1] = last.pre.asks[1]
    /\ F64Less(last.pre.asks[2].price, asks[2].price)
    /\ ~HasPrice(asks, last.pre.asks[2].price)

(***************************************************************************)
(* The two sides under one update, and update applied twice (Spec)         *)
(***************************************************************************)
\* The payload of the update call made in this step has the diff key k only.
OnlyDiff(k) ==
    /\ last'.op = "update"
    /\ get_index(last'.arg, 1).t = "obj"
    /\ DOMAIN get_index(last'.arg, 1).v = {k}

\* C21: the two sides are updated independently: an update whose payload
\* has only "b" leaves asks unchanged and one whose payload has only "a"
\* leaves bids unchanged (the untouched side being within the depth bound),
\* and depth is never changed by initialize or update.
SidesIndependent ==
    [][ /\ (OnlyDiff("b") /\ Len(asks) <= depth) => asks' = asks
        /\ (OnlyDiff("a") /\ Len(bids) <= depth) => bids' = bids
        /\ depth' = depth ]_vars

\* An update with bid entries only changed the bids of a store holding two
\* asks, which stayed.
SidesIndependentWitness ==
    /\ After("update")
    /\ DOMAIN Payload.v = {"b"}
    /\ bids # last.pre.bids
    /\ Len(asks) = 2
    /\ asks = last.pre.asks


\* The message of the update call just made, applied to the store it left.
UpdateAgain == update(depth, asks, bids, last.arg)

\* The call just made was an update that returned, on a store with no
\* duplicate prices.
UpdatedOnce ==
    /\ After("update")
    /\ NoDuplicatePrice(last.pre.asks)
    /\ NoDuplicatePrice(last.pre.bids)

\* C22: update is idempotent on a store with no duplicate prices: applying
\* the same update message a second time returns and leaves the asks and
\* bids (prices, volumes, order) the first application left.
UpdateIdempotent ==
    UpdatedOnce =>
        /\ ~UpdateAgain.panic
        /\ UpdateAgain.asks = asks
        /\ UpdateAgain.bids = bids

\* Whenever the second application returns, it leaves the store the first
\* application left.
UpdateIdempotentIfReturns ==
    (UpdatedOnce /\ ~UpdateAgain.panic) =>
        /\ UpdateAgain.asks = asks
        /\ UpdateAgain.bids = bids

====
